---- MODULE Spec2Model ----
(***************************************************************************)
(* Model of dimod/reference/samplers/exact_solver.py: the four exhaustive  *)
(* solvers ExactSolver, ExactPolySolver, ExactDQMSolver, ExactCQMSolver    *)
(* and the enumerators _graycode, _all_cases_dqm, _all_cases_cqm and       *)
(* _iterator_by_vartype.                                                   *)
(*                                                                         *)
(* Every solver call is synchronous and keeps nothing between calls, so a  *)
(* state is one finished call: the model handed in, what the enumerator    *)
(* built, what the solver handed to SampleSet, and the order in which the  *)
(* call used the model's and the result's interfaces (log).                *)
(*                                                                         *)
(* Numbers.  Variable values are integers.  Biases, energies, violations   *)
(* and atol are fixed-point integers in units of 1e-8 (Unit = 1.0); rtol   *)
(* is in parts per million.  Bounds of Integer variables are floats; they  *)
(* are kept in halves (3 is 1.5) so that int() has something to truncate.  *)
(***************************************************************************)
EXTENDS Integers, Sequences, FiniteSets, TLC

VARIABLES solver,       \* which solver ran: "none" until the call is made
          model,        \* the model the caller holds and hands to a solver
          status,       \* "idle" before the call, then "returned" | "raised"
          cases,        \* matrix built by the enumerator, before post-processing
          samples,      \* matrix handed to SampleSet
          labels,       \* variable list handed to SampleSet
          energies,     \* energy vector handed to SampleSet
          is_satisfied, \* per sample, per constraint (sample_cqm only)
          is_feasible,  \* per sample (sample_cqm only)
          log           \* interfaces used by the call, in order

vars == <<solver, model, status, cases, samples, labels, energies,
          is_satisfied, is_feasible, log>>

-----------------------------------------------------------------------------
(* Bounds of the model *)

MaxN == 3            \* variables of a binary quadratic model / polynomial
MaxDqmVars == 3      \* variables of a discrete quadratic model
MaxCases == 3        \* cases of one discrete variable
MaxGroups == 2       \* one-hot discrete groups of a constrained model
MaxGroupSize == 2    \* binary variables in one discrete group
MaxFree == 2         \* free-form variables of a constrained model
MaxConstraints == 1  \* constraints besides the discrete groups' own

-----------------------------------------------------------------------------
(* Fixed point *)

Unit == 10 ^ 8          \* 1.0
Half == Unit \div 2     \* 0.5
Million == 10 ^ 6

Abs(x) == IF x < 0 THEN -x ELSE x

RECURSIVE SumSeq(_)
SumSeq(s) == IF s = <<>> THEN 0 ELSE Head(s) + SumSeq(Tail(s))

RECURSIVE ProdSeq(_)
ProdSeq(s) == IF s = <<>> THEN 1 ELSE Head(s) * ProdSeq(Tail(s))

RECURSIVE Flatten(_)
Flatten(ss) == IF ss = <<>> THEN <<>> ELSE Head(ss) \o Flatten(Tail(ss))

Range(s) == {s[i] : i \in DOMAIN s}

-----------------------------------------------------------------------------
(* Energy interfaces of the model classes.  A model is a sequence of terms *)
(* coef * prod(vars); a sample is a row of values aligned with a label     *)
(* list, the (matrix, labels) form the solvers hand over.                  *)

IndexOf(lbls, v) == CHOOSE j \in DOMAIN lbls : lbls[j] = v

TermValue(t, row, lbls) ==
    t.coef * ProdSeq([k \in DOMAIN t.vars |-> row[IndexOf(lbls, t.vars[k])]])

Energy(terms, row, lbls) ==
    SumSeq([k \in DOMAIN terms |-> TermValue(terms[k], row, lbls)])

Energies(terms, rows, lbls) ==
    [i \in DOMAIN rows |-> Energy(terms, rows[i], lbls)]

-----------------------------------------------------------------------------
(* _graycode *)

\* i & -i : the value of the least significant set bit of i (i >= 1)
RECURSIVE LowBitMut(_)
LowBitMut(i) == IF i < 2 THEN 1 ELSE 2 * LowBitMut(i \div 2)

RECURSIVE LowBit(_)
LowBit(i) == IF i % 2 = 1 THEN 1 ELSE 2 * LowBit(i \div 2)

\* int.bit_length()
RECURSIVE BitLength(_)
BitLength(x) == IF x = 0 THEN 0 ELSE 1 + BitLength(x \div 2)

\* `not x` stored back into an int8 cell
NotMut(x) == x

Not(x) == IF x = 0 THEN 1 ELSE 0

\* one pass of the loop body: row i from row i - 1 (0-based i)
GrayStep(prev, i) ==
    LET v == BitLength(LowBit(i)) - 1
    IN  [prev EXCEPT ![v + 1] = Not(prev[v + 1])]

RECURSIVE GrayLoop(_, _, _)
GrayLoop(acc, i, ns) ==
    IF i >= ns THEN acc
    ELSE GrayLoop(Append(acc, GrayStep(acc[i], i)), i + 1, ns)

graycode(bqm) ==
    LET n  == Len(bqm.variables)
        ns == 2 ^ n
    IN  GrayLoop(<< [j \in 1..n |-> 0] >>, 1, ns)

-----------------------------------------------------------------------------
(* ExactSolver.sample, ExactPolySolver.sample_poly *)

\* `not len(bqm.variables)`
NoVariablesMut(bqm) == FALSE

NoVariables(bqm) == Len(bqm.variables) = 0

SpinMapMut(x) == x - 1

SpinMap(x) == 2 * x - 1

SampleBody(name, bqm) ==
    /\ solver' = name
    /\ UNCHANGED model
    /\ status' = "returned"
    /\ is_satisfied' = <<>>
    /\ is_feasible' = <<>>
    /\ IF NoVariables(bqm)
       THEN /\ cases' = <<>>
            /\ samples' = <<>>
            /\ labels' = <<>>
            /\ energies' = <<>>
            /\ log' = <<"from_samples">>
       ELSE \E g \in {graycode(bqm)} :
            \E s \in {IF bqm.vartype = "SPIN"
                       THEN [i \in DOMAIN g |-> [j \in DOMAIN g[i] |-> SpinMap(g[i][j])]]
                       ELSE g} :
                /\ cases' = g
                /\ samples' = s
                /\ labels' = bqm.variables
                /\ energies' = Energies(bqm.terms, s, bqm.variables)
                /\ log' = <<"_graycode", "energies", "from_samples_bqm">>

-----------------------------------------------------------------------------
(* numpy arrays: a shape and the elements in C (row-major) order *)

Reverse(s) == [k \in DOMAIN s |-> s[Len(s) + 1 - k]]

\* index tuple (0-based entries) of flat position p in an array of this shape
RECURSIVE Unravel(_, _)
Unravel(p, shape) ==
    IF shape = <<>> THEN <<>>
    ELSE LET k    == Len(shape)
             init == SubSeq(shape, 1, k - 1)
         IN  Append(Unravel(p \div shape[k], init), p % shape[k])

\* flat position of an index tuple
RECURSIVE Ravel(_, _)
Ravel(idx, shape) ==
    IF shape = <<>> THEN 0
    ELSE LET k == Len(shape)
         IN  Ravel(SubSeq(idx, 1, k - 1), SubSeq(shape, 1, k - 1)) * shape[k] + idx[k]

\* np.meshgrid(*its), default indexing='xy': the first two axes are swapped
AxisOf(j, m) == IF m >= 2 /\ j = 1 THEN 2 ELSE IF m >= 2 /\ j = 2 THEN 1 ELSE j

MeshShape(its) ==
    LET m == Len(its) IN [a \in 1..m |-> Len(its[AxisOf(a, m)])]

\* np.array(np.meshgrid(*its)): the m grids stacked along a new first axis.
\* np.meshgrid() of nothing is an empty list, np.array([]) has shape (0,).
MeshArray(its) ==
    LET m  == Len(its)
        sh == MeshShape(its)
        N  == ProdSeq(sh)
        grid(j) == [p \in 1..N |-> its[j][Unravel(p - 1, sh)[AxisOf(j, m)] + 1]]
    IN  IF m = 0 THEN [shape |-> <<0>>, flat |-> <<>>]
        ELSE [shape |-> <<m>> \o sh, flat |-> Flatten([j \in 1..m |-> grid(j)])]

\* ndarray.T : all axes reversed
Transpose(A) ==
    LET tsh == Reverse(A.shape)
    IN  [shape |-> tsh,
         flat  |-> [p \in 1..Len(A.flat) |->
                      A.flat[Ravel(Reverse(Unravel(p - 1, tsh)), A.shape) + 1]]]

\* ndarray.reshape(-1, ncols), as the sequence of its rows
Reshape(A, ncols) ==
    [r \in 1..(Len(A.flat) \div ncols) |->
        [j \in 1..ncols |-> A.flat[(r - 1) * ncols + j]]]

\* range(a, b) as a list
PyRange(a, b) == [k \in 1..(IF b > a THEN b - a ELSE 0) |-> a + k - 1]

-----------------------------------------------------------------------------
(* _all_cases_dqm, ExactDQMSolver.sample_dqm *)

all_cases_dqmMut(dqm) ==
    LET its == [j \in DOMAIN dqm.variables |-> PyRange(1, dqm.num_cases[j])]
    IN  [rows |-> Reshape(Transpose(MeshArray(its)), Len(dqm.variables)),
         variables |-> dqm.variables]

all_cases_dqm(dqm) ==
    LET its == [j \in DOMAIN dqm.variables |-> PyRange(0, dqm.num_cases[j])]
    IN  [rows |-> Reshape(Transpose(MeshArray(its)), Len(dqm.variables)),
         variables |-> dqm.variables]

\* DiscreteQuadraticModel.energies over (matrix, labels)
DqmEnergy(dqm, row, lbls) ==
    SumSeq([j \in DOMAIN lbls |-> dqm.linear[IndexOf(dqm.variables, lbls[j])][row[j] + 1]])

SampleDqmBody(dqm) ==
    /\ solver' = "sample_dqm"
    /\ UNCHANGED model
    /\ status' = "returned"
    /\ is_satisfied' = <<>>
    /\ is_feasible' = <<>>
    /\ IF Len(dqm.variables) = 0
       THEN /\ cases' = <<>>
            /\ samples' = <<>>
            /\ labels' = <<>>
            /\ energies' = <<>>
            /\ log' = <<"from_samples">>
       ELSE \E c \in {all_cases_dqm(dqm)} :
                /\ cases' = c.rows
                /\ samples' = c.rows
                /\ labels' = c.variables
                /\ energies' = [i \in DOMAIN c.rows |-> DqmEnergy(dqm, c.rows[i], c.variables)]
                /\ log' = <<"_all_cases_dqm", "energies", "from_samples">>

-----------------------------------------------------------------------------
(* _iterator_by_vartype, _all_cases_cqm *)

\* int() of a float kept in halves: truncation toward zero
Int2(h) == IF h >= 0 THEN h \div 2 ELSE -((-h) \div 2)

\* falling through the three tests raises ValueError
iterator_by_vartypeMut(cqm, v) ==
    IF cqm.vartype[v] = "SPIN" THEN [raised |-> FALSE, values |-> <<-1, 1>>]
    ELSE IF cqm.vartype[v] = "INTEGER"
    THEN [raised |-> FALSE,
          values |-> PyRange(Int2(cqm.lower_bound2[v]), Int2(cqm.upper_bound2[v] + 2))]
    ELSE [raised |-> FALSE, values |-> PyRange(0, 2)]

iterator_by_vartype(cqm, v) ==
    IF cqm.vartype[v] = "BINARY" THEN [raised |-> FALSE, values |-> PyRange(0, 2)]
    ELSE IF cqm.vartype[v] = "SPIN" THEN [raised |-> FALSE, values |-> <<-1, 1>>]
    ELSE IF cqm.vartype[v] = "INTEGER"
    THEN [raised |-> FALSE,
          values |-> PyRange(Int2(cqm.lower_bound2[v]), Int2(cqm.upper_bound2[v] + 2))]
    ELSE [raised |-> TRUE, values |-> <<>>]

\* s = np.zeros(d); s[index] = 1
OneHot(d, index) == [c \in 1..d |-> IF c = index + 1 THEN 1 ELSE 0]

\* itertools.product(*[range(d) for d in d_cases]): the last index runs fastest;
\* the product of nothing is the one empty tuple
ProductIndexes(d_cases) ==
    [r \in 1..ProdSeq(d_cases) |-> Unravel(r - 1, d_cases)]

\* the rows appended for one tuple of indexes
CombinationsFor(indexes, d_cases, c1) ==
    LET l == Flatten([g \in DOMAIN indexes |-> OneHot(d_cases[g], indexes[g])])
    IN  IF Len(c1) > 0 THEN [r \in DOMAIN c1 |-> l \o c1[r]] ELSE << l >>

all_cases_cqm(cqm) ==
    LET d_cases  == [g \in DOMAIN cqm.discrete |-> Len(cqm.discrete[g])]
        d_vars   == Flatten(cqm.discrete)
        var_list == SelectSeq(cqm.variables, LAMBDA v : v \notin Range(d_vars))
        its      == [j \in DOMAIN var_list |-> iterator_by_vartype(cqm, var_list[j])]
        bad      == { j \in DOMAIN its : its[j].raised }
        first    == CHOOSE j \in bad : \A k \in bad : j <= k
        c1       == IF Len(var_list) > 0
                    THEN Reshape(Transpose(MeshArray([j \in DOMAIN its |-> its[j].values])),
                                 Len(var_list))
                    ELSE <<>>
        indexes  == ProductIndexes(d_cases)
        \* `if not len(indexes): break` leaves combinations empty
        combinations ==
            IF Len(d_cases) = 0 THEN <<>>
            ELSE Flatten([r \in DOMAIN indexes |-> CombinationsFor(indexes[r], d_cases, c1)])
    IN  IF bad # {}
        THEN [raised |-> TRUE, rows |-> <<>>, variables |-> <<>>,
              calls |-> [j \in 1..first |-> "vartype"]]
        ELSE [raised |-> FALSE,
              rows |-> IF Len(combinations) = 0 THEN c1 ELSE combinations,
              variables |-> d_vars \o var_list,
              calls |-> [j \in DOMAIN var_list |-> "vartype"] \o <<"meshgrid", "product">>]

-----------------------------------------------------------------------------
(* ConstrainedQuadraticModel.iter_violations, ExactCQMSolver.sample_cqm *)

Violation(c, row, lbls) ==
    LET lhs == Energy(c.lhs, row, lbls)
    IN  IF c.sense = "==" THEN Abs(lhs - c.rhs)
        ELSE IF c.sense = "<=" THEN (IF lhs > c.rhs THEN lhs - c.rhs ELSE 0)
        ELSE (IF c.rhs > lhs THEN c.rhs - lhs ELSE 0)

\* atol + rtol*abs(energy); energies here are multiples of 0.01, so the
\* division by a million is exact
ToleranceMut(atol, rtol, energy) == atol + (energy \div Million) * rtol

ToleranceAddMut(atol, rtol, energy) == atol + rtol + Abs(energy)

Tolerance(atol, rtol, energy) == atol + (Abs(energy) \div Million) * rtol

\* all(satisfied)
All(satisfied) == \A c \in DOMAIN satisfied : satisfied[c]

SampleCqmBody(cqm) ==
    /\ solver' = "sample_cqm"
    /\ UNCHANGED model
    /\ IF Len(cqm.variables) = 0
       THEN /\ status' = "returned"
            /\ cases' = <<>>
            /\ samples' = <<>>
            /\ labels' = <<>>
            /\ energies' = <<>>
            /\ is_satisfied' = <<>>
            /\ is_feasible' = <<>>
            /\ log' = <<"from_samples">>
       ELSE \E c \in {all_cases_cqm(cqm)} :
            IF c.raised
            THEN /\ status' = "raised"
                 /\ cases' = <<>>
                 /\ samples' = <<>>
                 /\ labels' = <<>>
                 /\ energies' = <<>>
                 /\ is_satisfied' = <<>>
                 /\ is_feasible' = <<>>
                 /\ log' = <<"_all_cases_cqm">> \o c.calls \o <<"ValueError">>
            ELSE \E e \in {Energies(cqm.objective, c.rows, c.variables)} :
                 \E sat \in {[i \in DOMAIN c.rows |->
                               [k \in DOMAIN cqm.constraints |->
                                  Violation(cqm.constraints[k], c.rows[i], c.variables)
                                    <= Tolerance(cqm.atol, cqm.rtol, e[i])]]} :
                 /\ status' = "returned"
                 /\ cases' = c.rows
                 /\ samples' = c.rows
                 /\ labels' = c.variables
                 /\ energies' = e
                 /\ is_satisfied' = sat
                 /\ is_feasible' = [i \in DOMAIN sat |-> All(sat[i])]
                 /\ log' = <<"_all_cases_cqm">> \o c.calls
                             \o <<"energies", "iter_violations", "from_samples">>

-----------------------------------------------------------------------------
(* Inputs *)

LinearBiases == {-Half, Unit}
QuadraticBiases == {-(Unit + Half), 0}
CubicBiases == {-Unit, Half}
Vartypes == {"SPIN", "BINARY"}

LinearTerms(h) == [k \in DOMAIN h |-> [coef |-> h[k], vars |-> <<k>>]]
ChainTerms(J) == [k \in DOMAIN J |-> [coef |-> J[k], vars |-> <<k, k + 1>>]]

\* binary quadratic models over the variables 1..n
Bqms ==
    UNION { { [kind |-> "bqm", vartype |-> vt, variables |-> [k \in 1..n |-> k],
               terms |-> LinearTerms(h) \o ChainTerms(J)] :
                 vt \in Vartypes,
                 h \in [1..n -> LinearBiases],
                 J \in [1..(n - 1) -> QuadraticBiases] } : n \in 0..MaxN }

\* binary polynomials: a quadratic part and, from three variables on, a cubic term
Polys ==
    { [kind |-> "poly", vartype |-> b.vartype, variables |-> b.variables,
       terms |-> IF Len(b.variables) >= 3
                 THEN Append(b.terms, [coef |-> c, vars |-> <<1, 2, 3>>])
                 ELSE b.terms] : b \in Bqms, c \in CubicBiases }

\* discrete quadratic models over the variables 1..m, linear biases only:
\* case c (0-based) of variable j has the bias w[j] * c
Dqms ==
    UNION { { [kind |-> "dqm", variables |-> [k \in 1..m |-> k], num_cases |-> nc,
               linear |-> [k \in 1..m |-> [c \in 1..nc[k] |-> w[k] * (c - 1)]]] :
                 nc \in [1..m -> 1..MaxCases],
                 w \in [1..m -> LinearBiases] } : m \in 0..MaxDqmVars }

\* the two-variable Ising model of the ExactSolver docstring: a is 1, b is 2
DocBqm ==
    [kind |-> "bqm", vartype |-> "SPIN", variables |-> <<1, 2>>,
     terms |-> LinearTerms(<<-Half, Unit>>) \o ChainTerms(<< -(Unit + Half) >>)]

\* sample_cqm's defaults: rtol = 1e-6 in parts per million, atol = 1e-8 in units
DefaultRtol == 1
DefaultAtol == 1

SeqUpTo(S, n) == UNION { [1..k -> S] : k \in 0..n }

\* labels of a constrained model: free-form variable j is j, case c of
\* discrete group g is 10*g + c
GroupVar(g, c) == 10 * g + c

\* bounds of Integer variables, in halves: [-1, 1], [0.5, 1], [-2, -1.5]
IntegerBounds == { <<-2, 2>>, <<1, 2>>, <<-4, -3>> }

BinaryKind == [vartype |-> "BINARY", lb2 |-> 0, ub2 |-> 2]
SpinKind == [vartype |-> "SPIN", lb2 |-> -2, ub2 |-> 2]
RealKind == [vartype |-> "REAL", lb2 |-> 0, ub2 |-> 2]
IntegerKinds == { [vartype |-> "INTEGER", lb2 |-> b[1], ub2 |-> b[2]] : b \in IntegerBounds }
FreeKinds == {BinaryKind, SpinKind, RealKind} \cup IntegerKinds

SumTerms(vs) == [k \in DOMAIN vs |-> [coef |-> Unit, vars |-> << vs[k] >>]]

\* "sum": the sum of all variables; "chain": v1*v2 + 2*v2*v3 as far as the
\* variables go; "half": 0.5*v1 - 1.0
ObjectiveNames == {"sum", "chain", "half"}

ObjectiveTerms(name, vs) ==
    IF name = "sum" THEN SumTerms(vs)
    ELSE IF name = "chain"
    THEN [k \in 1..(IF Len(vs) > 3 THEN 2 ELSE Len(vs) - 1) |->
             [coef |-> k * Unit, vars |-> << vs[k], vs[k + 1] >>]]
    ELSE << [coef |-> Half, vars |-> << vs[1] >>], [coef |-> -Unit, vars |-> <<>>] >>

\* "pair": v1*v2 == 1 (v1 == 1 for a single variable); "atmost": sum <= 1;
\* "atleast": sum >= 1; "zero": v1 == 0
ConstraintNames == {"pair", "atmost", "atleast", "zero"}

ConstraintFor(name, vs) ==
    IF name = "pair"
    THEN [lhs |-> << [coef |-> Unit,
                      vars |-> IF Len(vs) >= 2 THEN << vs[1], vs[2] >> ELSE << vs[1] >>] >>,
          sense |-> "==", rhs |-> Unit]
    ELSE IF name = "atmost" THEN [lhs |-> SumTerms(vs), sense |-> "<=", rhs |-> Unit]
    ELSE IF name = "atleast" THEN [lhs |-> SumTerms(vs), sense |-> ">=", rhs |-> Unit]
    ELSE [lhs |-> << [coef |-> Unit, vars |-> << vs[1] >>] >>, sense |-> "==", rhs |-> 0]

\* A constrained model: discrete groups of the given sizes (each registered
\* with its own one-hot constraint, as add_discrete does), free-form
\* variables of the given kinds, added before or after the groups' variables.
MakeCqm(sizes, kinds, groups_first, objective, extra, rtol, atol) ==
    LET discrete == [g \in DOMAIN sizes |-> [c \in 1..sizes[g] |-> GroupVar(g, c)]]
        d  == Flatten(discrete)
        f  == [j \in DOMAIN kinds |-> j]
        vs == IF groups_first THEN d \o f ELSE f \o d
    IN  [kind |-> "cqm",
         variables |-> vs,
         vartype |-> [v \in Range(vs) |-> IF v \in Range(d) THEN "BINARY" ELSE kinds[v].vartype],
         lower_bound2 |-> [v \in Range(vs) |-> IF v \in Range(d) THEN 0 ELSE kinds[v].lb2],
         upper_bound2 |-> [v \in Range(vs) |-> IF v \in Range(d) THEN 2 ELSE kinds[v].ub2],
         discrete |-> discrete,
         objective |-> IF vs = <<>> THEN <<>> ELSE ObjectiveTerms(objective, vs),
         constraints |-> [g \in DOMAIN discrete |->
                            [lhs |-> SumTerms(discrete[g]), sense |-> "==", rhs |-> Unit]]
                         \o [k \in DOMAIN extra |-> ConstraintFor(extra[k], vs)],
         rtol |-> rtol,
         atol |-> atol]

\* every shape of the variable set, the free-form variables added before the
\* groups, with a two-term objective and the default tolerances
ShapeCqms ==
    { MakeCqm(sizes, kinds, FALSE, "half", <<>>, DefaultRtol, DefaultAtol) :
        sizes \in SeqUpTo(1..MaxGroupSize, MaxGroups),
        kinds \in SeqUpTo(FreeKinds, MaxFree) }

\* small shapes, the groups added first, with every objective, constraint
\* list and tolerance pair:
\* rtol 1e-6 or 0.5, atol 1e-8 or 1.0
Rtols == {DefaultRtol, Million \div 2}
Atols == {DefaultAtol, Unit}
TolKinds == {BinaryKind, SpinKind, [vartype |-> "INTEGER", lb2 |-> -2, ub2 |-> 2]}

TolCqms ==
    { MakeCqm(sizes, kinds, TRUE, obj, extra, rtol, atol) :
        sizes \in {<<>>, <<2>>},
        kinds \in SeqUpTo(TolKinds, 2) \ {<<>>},
        obj \in ObjectiveNames,
        extra \in SeqUpTo(ConstraintNames, MaxConstraints),
        rtol \in Rtols,
        atol \in Atols }

\* the model of the ExactCQMSolver docstring: x is 1, y is 2, z is 3
DocCqm ==
    MakeCqm(<<>>, <<BinaryKind, BinaryKind, BinaryKind>>, TRUE, "chain", <<"pair">>,
            DefaultRtol, DefaultAtol)

Cqms == ShapeCqms \cup TolCqms \cup {DocCqm}

-----------------------------------------------------------------------------
(* Actions: one solver call on the model the caller holds *)

Sample == status = "idle" /\ model.kind = "bqm" /\ SampleBody("sample", model)

\* sample_poly hands the polynomial to ExactSolver().sample
SamplePoly == status = "idle" /\ model.kind = "poly" /\ SampleBody("sample_poly", model)

SampleDqm == status = "idle" /\ model.kind = "dqm" /\ SampleDqmBody(model)

SampleCqm == status = "idle" /\ model.kind = "cqm" /\ SampleCqmBody(model)

Init ==
    /\ solver = "none"
    /\ model \in Bqms \cup {DocBqm} \cup Polys \cup Dqms \cup Cqms
    /\ status = "idle"
    /\ cases = <<>>
    /\ samples = <<>>
    /\ labels = <<>>
    /\ energies = <<>>
    /\ is_satisfied = <<>>
    /\ is_feasible = <<>>
    /\ log = <<>>

Next == Sample \/ SamplePoly \/ SampleDqm \/ SampleCqm

Spec == Init /\ [][Next]_vars

-----------------------------------------------------------------------------
(* Properties *)

Returned(name) == solver = name /\ status = "returned"

NumVars == Len(model.variables)

Distinct(rows) == \A i, j \in DOMAIN rows : rows[i] = rows[j] => i = j

\* the rows i (0-based) of a matrix are rows[i + 1]
DiffCols(r1, r2) == { j \in DOMAIN r1 : r1[j] # r2[j] }

GrayCall == solver \in {"sample", "sample_poly"} /\ status = "returned" /\ NumVars >= 1

\* C1: the matrix built by _graycode for n variables has exactly 2^n rows of
\* length n, no two rows are equal, and every vector of {0,1}^n is a row.
C1_Completeness ==
    GrayCall =>
        /\ Len(cases) = 2 ^ NumVars
        /\ \A i \in DOMAIN cases : Len(cases[i]) = NumVars
        /\ Distinct(cases)
        /\ \A b \in [1..NumVars -> {0, 1}] : \E i \in DOMAIN cases : cases[i] = b

C1_Witness == Returned("sample") /\ NumVars = 3 /\ Len(cases) = 8

\* C2: row 0 of the _graycode matrix is all zero, and row i (1 <= i < 2^n)
\* differs from row i-1 in exactly the coordinate whose index is the position
\* of the lowest set bit of i; every other coordinate is copied.
C2_GrayAdjacency ==
    GrayCall =>
        /\ \A j \in DOMAIN cases[1] : cases[1][j] = 0
        /\ \A i \in 1..(Len(cases) - 1) :
             \E v \in 0..(NumVars - 1) :
                /\ i % (2 ^ v) = 0
                /\ i % (2 ^ (v + 1)) # 0
                /\ DiffCols(cases[i + 1], cases[i]) = {v + 1}

C2_Witness ==
    /\ Returned("sample_poly")
    /\ NumVars = 3
    /\ cases[4] = <<0, 1, 0>>
    /\ cases[5] = <<0, 1, 1>>

SpinCall == Returned("sample") /\ NumVars >= 1 /\ model.vartype = "SPIN"

\* C10: for a Spin model ExactSolver.sample hands over the Gray-code matrix
\* with 0 mapped to -1 and 1 to +1, so every entry is -1 or +1 and consecutive
\* rows differ in exactly one coordinate; for h = {a: -0.5, b: 1.0},
\* J = {(a, b): -1.5} the rows are (-1,-1), (+1,-1), (+1,+1), (-1,+1) in this
\* order and (-1,-1), (+1,+1), (+1,-1), (-1,+1) have the energies -2.0, -1.0,
\* 0.0 and 3.0.
C10_SpinMapping ==
    SpinCall =>
        /\ Len(samples) = Len(cases)
        /\ \A i \in DOMAIN samples : \A j \in DOMAIN samples[i] :
              /\ samples[i][j] \in {-1, 1}
              /\ samples[i][j] = 1 <=> cases[i][j] = 1
              /\ samples[i][j] = -1 <=> cases[i][j] = 0
        /\ \A i \in 1..(Len(samples) - 1) :
              Cardinality(DiffCols(samples[i + 1], samples[i])) = 1
        /\ model = DocBqm =>
              /\ samples = << <<-1, -1>>, <<1, -1>>, <<1, 1>>, <<-1, 1>> >>
              /\ \A i \in DOMAIN samples :
                    /\ samples[i] = <<-1, -1>> => energies[i] = -2 * Unit
                    /\ samples[i] = <<1, 1>> => energies[i] = -Unit
                    /\ samples[i] = <<1, -1>> => energies[i] = 0
                    /\ samples[i] = <<-1, 1>> => energies[i] = 3 * Unit

C10_Witness == SpinCall /\ model = DocBqm /\ Len(samples) = 4

\* C7: for m >= 1 discrete variables with case counts k_1..k_m,
\* _all_cases_dqm builds exactly k_1*...*k_m rows of length m, entry j of
\* every row is in 0..k_j-1, no two rows are equal and every tuple of the
\* product space is a row.
C7_DiscreteCompleteness ==
    (Returned("sample_dqm") /\ NumVars >= 1) =>
        LET k == model.num_cases
            top == CHOOSE x \in Range(k) : \A y \in Range(k) : y <= x
        IN  /\ Len(cases) = ProdSeq(k)
            /\ \A i \in DOMAIN cases :
                  /\ Len(cases[i]) = NumVars
                  /\ \A j \in DOMAIN cases[i] : cases[i][j] \in 0..(k[j] - 1)
            /\ Distinct(cases)
            /\ \A t \in [1..NumVars -> 0..(top - 1)] :
                  (\A j \in 1..NumVars : t[j] < k[j]) => \E i \in DOMAIN cases : cases[i] = t

C7_Witness ==
    /\ Returned("sample_dqm")
    /\ model.num_cases = <<3, 2>>
    /\ Len(cases) = 6
    /\ \E i \in DOMAIN cases : cases[i] = <<2, 1>>

Enumerators == {"_graycode", "_all_cases_dqm", "_all_cases_cqm"}

\* C5: a model with zero variables gives a result with zero samples and no
\* error, from each of the four solvers, and no enumerator is invoked.
C5_ZeroVariables ==
    (status # "idle" /\ NumVars = 0) =>
        /\ solver \in {"sample", "sample_poly", "sample_dqm", "sample_cqm"}
        /\ status = "returned"
        /\ samples = <<>>
        /\ energies = <<>>
        /\ Range(log) \cap Enumerators = {}

C5_Witness ==
    /\ Returned("sample")
    /\ NumVars = 0
    /\ log = <<"from_samples">>

FreeVars == { v \in Range(model.variables) : \A g \in DOMAIN model.discrete : v \notin Range(model.discrete[g]) }

Unsupported == { v \in FreeVars : model.vartype[v] \notin {"BINARY", "SPIN", "INTEGER"} }

\* C6: if a free-form variable of a constrained model is not Binary, Spin or
\* Integer, sample_cqm fails and returns nothing; the error is raised while
\* the domains are inspected, before any product row is built and before the
\* energy and violation interfaces are called.
C6_UnsupportedDomain ==
    (solver = "sample_cqm" /\ status # "idle" /\ Unsupported # {}) =>
        /\ status = "raised"
        /\ cases = <<>> /\ samples = <<>> /\ labels = <<>> /\ energies = <<>>
        /\ is_satisfied = <<>> /\ is_feasible = <<>>
        /\ log[Len(log)] = "ValueError"
        /\ log[Len(log) - 1] = "vartype"
        /\ Range(log) \cap {"meshgrid", "product", "energies", "iter_violations", "from_samples"} = {}

C6_Witness ==
    /\ solver = "sample_cqm"
    /\ status = "raised"
    /\ Len(model.discrete) = 1
    /\ Cardinality(Unsupported) = 1
    /\ Cardinality(FreeVars) = 2

\* C4: in sample_cqm, is_satisfied[i][c] holds exactly when the violation of
\* constraint c at sample i is at most atol + rtol * |objective energy of
\* sample i|, and is_feasible[i] exactly when is_satisfied[i][c] holds for
\* every constraint c of the model.
C4_Feasibility ==
    (Returned("sample_cqm") /\ NumVars >= 1) =>
        /\ Len(is_satisfied) = Len(samples)
        /\ Len(is_feasible) = Len(samples)
        /\ \A i \in DOMAIN samples :
              \E e \in {Energy(model.objective, samples[i], labels)} :
                 /\ Len(is_satisfied[i]) = Len(model.constraints)
                 /\ \A c \in DOMAIN model.constraints :
                       is_satisfied[i][c] <=>
                           Violation(model.constraints[c], samples[i], labels)
                             <= model.atol + (Abs(e) \div Million) * model.rtol
                 /\ is_feasible[i] <=> \A c \in DOMAIN model.constraints : is_satisfied[i][c]

\* a constraint met only through rtol times a negative energy, and missed by
\* another sample with the same violation
C4_Witness ==
    /\ Returned("sample_cqm")
    /\ \E i, j \in DOMAIN samples : \E c \in DOMAIN model.constraints :
          /\ energies[i] < 0
          /\ Violation(model.constraints[c], samples[i], labels) > model.atol
          /\ Violation(model.constraints[c], samples[i], labels)
               = Violation(model.constraints[c], samples[j], labels)
          /\ is_satisfied[i][c]
          /\ is_feasible[i]
          /\ ~is_satisfied[j][c]

\* C9: for Binary x, y, z, objective x*y + 2*y*z and the constraint x*y = 1,
\* sample_cqm returns 8 samples and a sample is feasible exactly when x = 1
\* and y = 1, whatever z is.
C9_DocExample ==
    (solver = "sample_cqm" /\ status # "idle" /\ model = DocCqm) =>
        /\ status = "returned"
        /\ Len(samples) = 8
        /\ Len(is_feasible) = 8
        /\ \A i \in DOMAIN samples :
              is_feasible[i] <=> (/\ samples[i][IndexOf(labels, 1)] = 1
                                  /\ samples[i][IndexOf(labels, 2)] = 1)

C9_Witness ==
    /\ Returned("sample_cqm")
    /\ model = DocCqm
    /\ \E i, j \in DOMAIN samples :
          /\ samples[i] = <<1, 1, 0>> /\ is_feasible[i]
          /\ samples[j] = <<1, 1, 1>> /\ is_feasible[j]

\* the domain of a free-form variable, as the model declares it (the bounds
\* of IntegerBounds lie within -2..1)
Domain(v) ==
    IF model.vartype[v] = "BINARY" THEN {0, 1}
    ELSE IF model.vartype[v] = "SPIN" THEN {-1, 1}
    ELSE { x \in -4..4 : model.lower_bound2[v] <= 2 * x /\ 2 * x <= model.upper_bound2[v] }

GroupSizes == [g \in DOMAIN model.discrete |-> Len(model.discrete[g])]

\* first column (1-based) of discrete group g in a row
GroupStart(g) == SumSeq(SubSeq(GroupSizes, 1, g - 1)) + 1

FreeList == SelectSeq(model.variables, LAMBDA v : v \in FreeVars)

CqmCall == Returned("sample_cqm") /\ NumVars >= 1

\* C3: for G one-hot groups of sizes k_1..k_G and m free-form variables with
\* domain sizes d_1..d_m, _all_cases_cqm returns exactly
\* (k_1*...*k_G) * (d_1*...*d_m) rows, no two equal, and in every row the
\* segment of each group is one-hot; also with no free-form variable and with
\* no group.
C3_MixedCompleteness ==
    CqmCall =>
        /\ Len(cases) = ProdSeq(GroupSizes)
                          * ProdSeq([j \in DOMAIN FreeList |-> Cardinality(Domain(FreeList[j]))])
        /\ Distinct(cases)
        /\ \A i \in DOMAIN cases : \A g \in DOMAIN model.discrete :
              LET seg == SubSeq(cases[i], GroupStart(g), GroupStart(g) + GroupSizes[g] - 1)
              IN  /\ Len(seg) = GroupSizes[g]
                  /\ Range(seg) \subseteq {0, 1}
                  /\ SumSeq(seg) = 1

\* C8: the variable list of _all_cases_cqm has the groups' variables (group
\* order, then order within the group) before the free-form variables, it is
\* as long as every row, every entry of a free-form column is in the domain
\* of the variable labelled there, and the columns of a group carry that
\* group's variables.
C8_ColumnsMatchLabels ==
    CqmCall =>
        /\ labels = Flatten(model.discrete) \o FreeList
        /\ \A i \in DOMAIN cases : Len(cases[i]) = Len(labels)
        /\ \A i \in DOMAIN cases : \A j \in DOMAIN cases[i] :
              labels[j] \in FreeVars => cases[i][j] \in Domain(labels[j])
        /\ \A g \in DOMAIN model.discrete :
              SubSeq(labels, GroupStart(g), GroupStart(g) + GroupSizes[g] - 1) = model.discrete[g]

====
